---- MODULE Spec2Model ----
(***************************************************************************)
(* Model of the DQI scoring and percentile risk-ranking pipeline           *)
(* (scripts/compute_dqi.py, scripts/risk_ranking.py,                       *)
(* scripts/generate_summary.py).                                           *)
(*                                                                         *)
(* Numbers.  The program works on float64.  The model holds every number   *)
(* as an exact integer multiple of a fixed unit:                           *)
(*   - a signal percentage or a threshold: thousandths of a percentage     *)
(*     point (PctScale units per point);                                   *)
(*   - a normalized penalty (0..100): 1/NormScale of a point, NormScale    *)
(*     being the least scale in which (signal - threshold) / threshold *   *)
(*     100 is a whole number for every clinical threshold and every signal *)
(*     given in thousandths;                                               *)
(*   - a stored dqi_score or penalty_<signal>: hundredths (the values the  *)
(*     code keeps after .round(2)).                                        *)
(* The signal grids below hold no value whose exact penalty lies on a      *)
(* rounding tie, so exact arithmetic and float64 give the same stored      *)
(* values on them.                                                         *)
(***************************************************************************)
EXTENDS Integers, Sequences, FiniteSets, TLC

VARIABLES
    pc,            \* position of the run under the specification in force
    n_signal,      \* normalize_signal_vs_threshold: argument signal_pct
    n_threshold,   \* normalize_signal_vs_threshold: argument threshold_pct
    n_result,      \* normalize_signal_vs_threshold: returned value
    study_signals, \* the study-level signal table (sequence of rows)
    site_signals,  \* the site-level signal table
    study_dqi,     \* the study-level DQI table
    site_dqi,      \* the site-level DQI table
    dqi_scores_series, \* categorize_risk_with_guardrails: the argument
    risk_series,   \* categorize_risk_with_guardrails: the returned series
    risk_before,   \* what it returned for the batch before the batch was rescaled
    drv_row,       \* identify_top_penalty_drivers: argument row
    top_n,         \* identify_top_penalty_drivers: argument top_n
    top_drivers,   \* identify_top_penalty_drivers: the returned list
    sort_kind,     \* order the numpy build gives equal sort keys
    study_ranks,   \* rank_studies: the returned table
    site_ranks,    \* rank_sites: the returned table
    prev_study_ranks, \* what rank_studies returned for the table before it changed
    prev_site_ranks,  \* what rank_sites returned for the table before it changed
    ANOMALY_DETECTION_AVAILABLE, \* whether detect_anomalies could be imported
    files,         \* outputs/: file name -> content, Absent when not there
    stage_result   \* how the last run of each stage ended

normVars == <<n_signal, n_threshold, n_result>>
dqiVars == <<study_signals, site_signals, study_dqi, site_dqi>>
catVars == <<dqi_scores_series, risk_series, risk_before>>
drvVars == <<drv_row, top_n, top_drivers>>
rankVars == <<sort_kind, study_ranks, site_ranks, prev_study_ranks, prev_site_ranks>>
pipeVars == <<ANOMALY_DETECTION_AVAILABLE, files, stage_result>>
vars == <<pc, n_signal, n_threshold, n_result,
          study_signals, site_signals, study_dqi, site_dqi,
          dqi_scores_series, risk_series, risk_before, drv_row, top_n, top_drivers,
          sort_kind, study_ranks, site_ranks, prev_study_ranks, prev_site_ranks,
          ANOMALY_DETECTION_AVAILABLE, files, stage_result>>

---------------------------------------------------------------------------
(* Units *)

\* model units per percentage point (signals and thresholds)
PctScale == 10 * 100
\* model units per point of a normalized penalty
NormScale == 28 * 100

Min(a, b) == IF a <= b THEN a ELSE b

\* a / b rounded to the nearest integer, ties to the even one (numpy rint)
RoundHalfEven(a, b) ==
    LET q == a \div b
        r == a % b
    IN  IF 2 * r < b THEN q
        ELSE IF 2 * r > b THEN q + 1
        ELSE IF q % 2 = 0 THEN q ELSE q + 1

\* num / den (a value in points) rounded to 1 decimal, in hundredths
Round1(num, den) == 10 * RoundHalfEven(num, den \div 10)
\* Series.round(2): num / den (a value in points) as hundredths
Round2(num, den) == RoundHalfEven(num, den \div 100)

---------------------------------------------------------------------------
(* compute_dqi.py *)

SignalNames == <<"missing_pages_pct", "missing_visits_pct",
                 "unresolved_edrr_pct", "uncoded_terms_pct", "pending_sae_pct">>

CLINICAL_THRESHOLDS ==
    [missing_pages_pct   |-> 5 * PctScale,
     missing_visits_pct  |-> 10 * PctScale,
     unresolved_edrr_pct |-> 8 * PctScale,
     uncoded_terms_pct   |-> 7 * PctScale,
     pending_sae_pct     |-> 5 * PctScale]

W_pages == 10
W_visits == 15
W_edrr == 15
W_codes == 12
W_sae == 25
\* the weights summed without the last one
total_weight_short == W_pages + W_visits + W_edrr + W_codes
total_weight == W_pages + W_visits + W_edrr + W_codes + W_sae

\* normalize without the floor at the threshold
normalize_unfloored(signal_pct, threshold_pct) ==
    Min((signal_pct - threshold_pct) * ((100 * NormScale) \div threshold_pct),
        100 * NormScale)

\* normalize without the cap at 100
normalize_uncapped(signal_pct, threshold_pct) ==
    IF signal_pct <= threshold_pct
    THEN 0
    ELSE (signal_pct - threshold_pct) * ((100 * NormScale) \div threshold_pct)

\* normalize that penalises the shortfall below the threshold
normalize_reversed(signal_pct, threshold_pct) ==
    IF signal_pct >= threshold_pct
    THEN 0
    ELSE Min((threshold_pct - signal_pct) * ((100 * NormScale) \div threshold_pct),
             100 * NormScale)

\* The result in 1/NormScale points.  threshold_pct divides 100 * NormScale
\* for every threshold the model uses, so the quotient is exact.
normalize_signal_vs_threshold(signal_pct, threshold_pct) ==
    IF signal_pct <= threshold_pct
    THEN 0
    ELSE LET excess == signal_pct - threshold_pct
             normalized == excess * ((100 * NormScale) \div threshold_pct)
         IN  Min(normalized, 100 * NormScale)

\* weighted_penalty with the weights of visits and sae exchanged
weighted_penalty_swapped(pct) ==
    (pct.pages * W_pages) + (pct.visits * W_sae) + (pct.edrr * W_edrr)
        + (pct.codes * W_codes) + (pct.sae * W_visits)
\* weighted_penalty, as the numerator over NormScale * total_weight
weighted_penalty(pct) ==
    (pct.pages * W_pages) + (pct.visits * W_visits) + (pct.edrr * W_edrr)
        + (pct.codes * W_codes) + (pct.sae * W_sae)

\* One row of compute_dqi_study_level / compute_dqi_site_level (the two
\* bodies are the same statements): the copied row with dqi_score and the
\* five penalty columns added, rounded to 2 decimals.
compute_dqi_row(row) ==
    LET pct == [pages  |-> normalize_signal_vs_threshold(row.missing_pages_pct,
                               CLINICAL_THRESHOLDS.missing_pages_pct),
                visits |-> normalize_signal_vs_threshold(row.missing_visits_pct,
                               CLINICAL_THRESHOLDS.missing_visits_pct),
                edrr   |-> normalize_signal_vs_threshold(row.unresolved_edrr_pct,
                               CLINICAL_THRESHOLDS.unresolved_edrr_pct),
                codes  |-> normalize_signal_vs_threshold(row.uncoded_terms_pct,
                               CLINICAL_THRESHOLDS.uncoded_terms_pct),
                sae    |-> normalize_signal_vs_threshold(row.pending_sae_pct,
                               CLINICAL_THRESHOLDS.pending_sae_pct)]
        den == NormScale * total_weight
    IN  [dqi_score      |-> Round2(100 * den - weighted_penalty(pct), den),
         penalty_pages  |-> Round2(pct.pages * W_pages, den),
         penalty_visits |-> Round2(pct.visits * W_visits, den),
         penalty_edrr   |-> Round2(pct.edrr * W_edrr, den),
         penalty_codes  |-> Round2(pct.codes * W_codes, den),
         penalty_sae    |-> Round2(pct.sae * W_sae, den)] @@ row

compute_dqi_study_level(signals) ==
    [i \in DOMAIN signals |-> compute_dqi_row(signals[i])]

compute_dqi_site_level(signals) ==
    [i \in DOMAIN signals |-> compute_dqi_row(signals[i])]

---------------------------------------------------------------------------
(* risk_ranking.py: categorize_risk_with_guardrails *)

\* the k-th smallest value of the series (k = 1 for the lowest), as
\* numpy's partition places it
KthSmallest(series, k) ==
    CHOOSE v \in {series[i] : i \in DOMAIN series} :
        /\ Cardinality({j \in DOMAIN series : series[j] < v}) < k
        /\ k <= Cardinality({j \in DOMAIN series : series[j] <= v})

\* Series.quantile(qnum / qden), linear interpolation, of a non-empty
\* series: the value at the fractional position (n - 1) * q of the sorted
\* values.  Returned multiplied by qden, which keeps it a whole number.
quantile(series, qnum, qden) ==
    LET n == Len(series)
        lo == ((n - 1) * qnum) \div qden
        rem == ((n - 1) * qnum) % qden
        hi == IF rem = 0 THEN lo ELSE lo + 1
        below == KthSmallest(series, lo + 1)
        above == KthSmallest(series, hi + 1)
    IN  qden * below + rem * (above - below)

\* the 0.10 quantile in the place of p90, times 10
p10_times10(series) == quantile(series, 1, 10)

\* p90 = quantile(0.90), times 10
p90_times10(series) == quantile(series, 9, 10)
\* p75 = quantile(0.75), times 4
p75_times4(series) == quantile(series, 3, 4)

\* tiers cut at fixed scores instead of the batch's quantiles
assign_risk_fixed_cutoffs(score, p90x10, p75x4) ==
    IF score <= 200 THEN "High Risk"
    ELSE IF score <= 250 THEN "Medium Risk"
    ELSE "Low Risk"

\* tiers by strict comparisons
assign_risk_strict(score, p90x10, p75x4) ==
    IF 10 * score < p90x10 THEN "High Risk"
    ELSE IF 4 * score < p75x4 THEN "Medium Risk"
    ELSE "Low Risk"

assign_risk(score, p90x10, p75x4) ==
    IF 10 * score <= p90x10 THEN "High Risk"
    ELSE IF 4 * score <= p75x4 THEN "Medium Risk"
    ELSE "Low Risk"

categorize_risk_with_guardrails(series) ==
    IF series = <<>> THEN <<>>
    ELSE LET p90 == p90_times10(series)
             p75 == p75_times4(series)
         IN  [i \in DOMAIN series |-> assign_risk(series[i], p90, p75)]

---------------------------------------------------------------------------
(* risk_ranking.py: identify_top_penalty_drivers *)

signal_cols_new ==
    <<[col |-> "penalty_pages",  label |-> "CRF Pages"],
      [col |-> "penalty_visits", label |-> "Missing Visits"],
      [col |-> "penalty_edrr",   label |-> "EDRR Queries"],
      [col |-> "penalty_codes",  label |-> "Uncoded Terms"],
      [col |-> "penalty_sae",    label |-> "SAE Reviews"]>>

signal_cols_old ==
    <<[col |-> "missing_pages_pct",   label |-> "CRF Pages"],
      [col |-> "missing_visits_pct",  label |-> "Missing Visits"],
      [col |-> "unresolved_edrr_pct", label |-> "EDRR Queries"],
      [col |-> "uncoded_terms_pct",   label |-> "Uncoded Terms"],
      [col |-> "pending_sae_pct",     label |-> "SAE Reviews"]>>

\* the mapping in force for a row
signal_cols(r) ==
    IF "penalty_pages" \notin DOMAIN r THEN signal_cols_old ELSE signal_cols_new

\* penalties.items(): <<label, value>> pairs in declaration order
penalties(r) ==
    [k \in DOMAIN signal_cols(r) |->
        LET c == signal_cols(r)[k]
        IN  <<c.label, IF c.col \in DOMAIN r THEN r[c.col] ELSE 0>>]

RECURSIVE InsertDescTiesFirst(_, _)
\* x put into the descending sequence s before the items equal to it
InsertDescTiesFirst(s, x) ==
    IF s = <<>> THEN <<x>>
    ELSE IF x[2] >= Head(s)[2] THEN <<x>> \o s
    ELSE <<Head(s)>> \o InsertDescTiesFirst(Tail(s), x)

RECURSIVE InsertDesc(_, _)
\* x put into the descending sequence s after the items equal to it
InsertDesc(s, x) ==
    IF s = <<>> THEN <<x>>
    ELSE IF x[2] > Head(s)[2] THEN <<x>> \o s
    ELSE <<Head(s)>> \o InsertDesc(Tail(s), x)

RECURSIVE sorted_reverse(_)
\* sorted(items, key=lambda x: x[1], reverse=True): descending by value,
\* items of equal value in their original order (the sort is stable)
sorted_reverse(items) ==
    IF items = <<>> THEN <<>>
    ELSE InsertDesc(sorted_reverse(SubSeq(items, 1, Len(items) - 1)),
                    items[Len(items)])

RECURSIVE KeepPositive(_)
\* [p[0] for p in items if p[1] > 0]
KeepPositive(items) ==
    IF items = <<>> THEN <<>>
    ELSE (IF Head(items)[2] > 0 THEN <<Head(items)[1]>> ELSE <<>>)
             \o KeepPositive(Tail(items))

identify_top_penalty_drivers(r, n) ==
    LET sorted_penalties == sorted_reverse(penalties(r))
    IN  KeepPositive(SubSeq(sorted_penalties, 1, Min(n, Len(sorted_penalties))))

---------------------------------------------------------------------------
(* risk_ranking.py: rank_studies, rank_sites *)

\* A table (DataFrame) is a sequence of rows, each a record from column
\* names to values; every row of a table has the same columns.
Columns(df) == IF df = <<>> THEN {} ELSE DOMAIN df[1]
Column(df, c) == [i \in DOMAIN df |-> df[i][c]]

\* the score column taken without looking for the amplified one
dqi_column_base(df) == "dqi_score"

\* 'dqi_score_amplified' if it is in ranked.columns else 'dqi_score'
dqi_column(df) ==
    IF "dqi_score_amplified" \in Columns(df) THEN "dqi_score_amplified"
    ELSE "dqi_score"

RECURSIVE join(_)
\* ", ".join(labels)
join(labels) ==
    IF labels = <<>> THEN ""
    ELSE IF Len(labels) = 1 THEN labels[1]
    ELSE labels[1] \o ", " \o join(Tail(labels))

\* Place of row i after an ascending argsort of keys.  The default kind
\* (quicksort) leaves the order of equal keys to the numpy build; kind names
\* the order the build gives them: "stable" keeps them in input order,
\* "ties_reversed" reverses them.  Either way it depends on the keys alone.
SortedPlace(keys, kind, i) ==
    1 + Cardinality({j \in DOMAIN keys :
            \/ keys[j] < keys[i]
            \/ keys[j] = keys[i] /\ (IF kind = "stable" THEN j < i ELSE j > i)})

\* the table left in its input order
sort_values_unsorted(df, by, kind) == df

\* df.sort_values(by).reset_index(drop=True)
sort_values(df, by, kind) ==
    LET keys == Column(df, by)
        place == [i \in DOMAIN df |-> SortedPlace(keys, kind, i)]
    IN  [k \in DOMAIN df |-> df[CHOOSE i \in DOMAIN df : place[i] = k]]

\* the count that does not restart per study
within_study_rank_global(df, k) == k

\* groupby('study_id').cumcount() + 1 at row k of the sorted table
within_study_rank(df, k) ==
    1 + Cardinality({j \in 1..(k - 1) : df[j].study_id = df[k].study_id})

\* ranked.get(col, 0) of one row
get(r, c) == IF c \in DOMAIN r THEN r[c] ELSE 0

total_signal_pct(r) ==
    get(r, "missing_pages_pct") + get(r, "missing_visits_pct")
        + get(r, "unresolved_edrr_pct") + get(r, "uncoded_terms_pct")
        + get(r, "pending_sae_pct")

\* the table with risk_level and top_risk_drivers added
with_risk_and_drivers(df) ==
    LET risk == categorize_risk_with_guardrails(Column(df, dqi_column(df)))
    IN  [i \in DOMAIN df |->
            LET r == [risk_level |-> risk[i]] @@ df[i]
            IN  [top_risk_drivers |-> join(identify_top_penalty_drivers(r, 2))] @@ r]

rank_studies(df, kind) ==
    LET ranked == sort_values(with_risk_and_drivers(df), dqi_column(df), kind)
    IN  [k \in DOMAIN ranked |->
            [rank             |-> k,
             study_id         |-> ranked[k].study_id,
             dqi_score        |-> ranked[k].dqi_score,
             risk_level       |-> ranked[k].risk_level,
             total_signal_pct |-> total_signal_pct(ranked[k]),
             top_risk_drivers |-> ranked[k].top_risk_drivers]]

\* the label that looks at the anomaly flag alone
risk_driver_any_tier(r) ==
    IF "is_anomalous" \in DOMAIN r /\ r.is_anomalous = 1
    THEN "ML-Detected Anomaly"
    ELSE "Rule-based"

\* risk_driver of one row: 'Rule-based', or 'ML-Detected Anomaly' where the
\* table has is_anomalous, the row's is 1 and its risk_level is High Risk
risk_driver(r) ==
    IF "is_anomalous" \in DOMAIN r /\ r.is_anomalous = 1
            /\ r.risk_level = "High Risk"
    THEN "ML-Detected Anomaly"
    ELSE "Rule-based"

rank_sites(df, kind) ==
    LET labelled == with_risk_and_drivers(df)
        driven == [i \in DOMAIN df |->
                      [risk_driver |-> risk_driver(labelled[i])] @@ labelled[i]]
        ranked == sort_values(driven, dqi_column(df), kind)
    IN  [k \in DOMAIN ranked |->
            [study_id          |-> ranked[k].study_id,
             site_id           |-> ranked[k].site_id,
             global_rank       |-> k,
             within_study_rank |-> within_study_rank(ranked, k),
             dqi_score         |-> ranked[k].dqi_score,
             risk_level        |-> ranked[k].risk_level,
             risk_driver       |-> ranked[k].risk_driver,
             total_signal_pct  |-> total_signal_pct(ranked[k]),
             top_risk_drivers  |-> ranked[k].top_risk_drivers]]

---------------------------------------------------------------------------
(* Inputs *)

\* largest number of quarter-threshold steps above a threshold in a grid
MaxCoarse == 2
\* largest signal, in half points, given to the normalizer alone
MaxHalfPts == 40

\* Values of one signal around its threshold t: negative, zero, at the
\* threshold, one thousandth above it, quarter steps above it, twice the
\* threshold, and 100.
SignalGrid(t) ==
    {0 - PctScale, 0, t, t + 1, 2 * t, 100 * PctScale}
        \cup {t + k * (t \div 4) : k \in 1..MaxCoarse}

\* values of the signals held fixed while one signal is varied: none, a
\* quarter above the threshold, far above it
FixedGrid(t) == {0, t + (t \div 4), 100 * PctScale}

NormSignals ==
    {(k * PctScale) \div 2 : k \in (0 - 4)..MaxHalfPts}
        \cup {100 * PctScale, 150 * PctScale}

NormThresholds == {k * PctScale : k \in {1, 2, 4, 5, 7, 8, 10}}

\* longest batch of scores given to the categorizer
MaxBatch == 6
\* largest score (in points) of those batches
MaxScore == 3

\* every sequence over S of length 1..n
RECURSIVE SeqsUpTo(_, _)
SeqsUpTo(S, n) ==
    IF n = 0 THEN {}
    ELSE LET shorter == SeqsUpTo(S, n - 1)
         IN  {<<x>> : x \in S} \cup shorter
                 \cup {Append(q, x) : q \in {t \in shorter : Len(t) = n - 1}, x \in S}

ScoreValues == {100 * k : k \in 1..MaxScore}
Batches == SeqsUpTo(ScoreValues, MaxBatch)

\* longest batch that is categorized again on another scale
MaxScaleBatch == 4
ScaleBatches == SeqsUpTo(ScoreValues, MaxScaleBatch)
\* largest scale factor k
MaxFactor == 3
ScaleFactors == 1..MaxFactor
\* offsets c, in hundredths of a point
ScaleOffsets == {0 - 350, 0, 250}

\* largest top_n given to the driver attributor
MaxTopN == 6
\* largest penalty value (in points) of a driver row
MaxPenalty == 2

PenaltyValues == {100 * k : k \in (0 - 1)..MaxPenalty}

\* a DQI record: the five penalty columns beside the signal columns
NewRow(v) ==
    [penalty_pages |-> v[1], penalty_visits |-> v[2], penalty_edrr |-> v[3],
     penalty_codes |-> v[4], penalty_sae |-> v[5],
     missing_pages_pct |-> 9 * PctScale, missing_visits_pct |-> 0,
     unresolved_edrr_pct |-> 9 * PctScale, uncoded_terms_pct |-> 0,
     pending_sae_pct |-> 9 * PctScale]
\* a record of the old layout: signal columns only
OldRow(v) ==
    [missing_pages_pct |-> v[1], missing_visits_pct |-> v[2],
     unresolved_edrr_pct |-> v[3], uncoded_terms_pct |-> v[4],
     pending_sae_pct |-> v[5]]
\* a DQI record that lacks the penalty_sae column
PartialRow(v) ==
    [penalty_pages |-> v[1], penalty_visits |-> v[2], penalty_edrr |-> v[3],
     penalty_codes |-> v[4], pending_sae_pct |-> v[5]]

DriverRows ==
    UNION {{NewRow(v), OldRow(v), PartialRow(v)} : v \in [1..5 -> PenaltyValues]}

\* most rows of a table given to the ranking functions and the pipeline
MaxRows == 3

\* signal profiles of the rows: clean, missing visits at twice the threshold
\* (the example scenario), pages and SAE reviews far above threshold
Profiles ==
    <<[missing_pages_pct |-> 0, missing_visits_pct |-> 0,
       unresolved_edrr_pct |-> 0, uncoded_terms_pct |-> 0, pending_sae_pct |-> 0],
      [missing_pages_pct |-> 0, missing_visits_pct |-> 20 * PctScale,
       unresolved_edrr_pct |-> 0, uncoded_terms_pct |-> 0, pending_sae_pct |-> 0],
      [missing_pages_pct |-> 10 * PctScale, missing_visits_pct |-> 0,
       unresolved_edrr_pct |-> 0, uncoded_terms_pct |-> 0,
       pending_sae_pct |-> 10 * PctScale]>>

\* values of a dqi_score_amplified column given to the ranking functions
AmplifiedValues == {30 * 100, 90 * 100}

\* column layouts of the DQI tables: rule-based columns only; plus a
\* dqi_score_amplified of any value; as compute_dqi.py leaves them after
\* its anomaly step
Layouts == {"plain", "amplified", "anomaly"}

\* the scores of one row: its signal profile and, where the layout leaves
\* the amplified score free, its amplified score
RowChoices(layout) ==
    [profile : DOMAIN Profiles,
     amp : IF layout = "amplified" THEN AmplifiedValues ELSE {0}]

\* the sets of rows flagged is_anomalous = 1 in a table of n rows: none, the
\* first row, the last row, every row
FlaggedSets(layout, n) ==
    IF layout = "anomaly" THEN {{}, {1}, {n}, 1..n} ELSE {{}}

StudyName(i) == "Study " \o ToString(i)
SiteName(i) == "Site " \o ToString(i)
\* sites alternate between two studies
StudyOfSite(i) == StudyName(2 - (i % 2))

StudySignalRow(i, profile) == [study_id |-> StudyName(i)] @@ Profiles[profile]
SiteSignalRow(i, profile) ==
    [study_id |-> StudyOfSite(i), site_id |-> SiteName(i)] @@ Profiles[profile]

NoTable == <<>>
NoRow == [none |-> 0]
\* a file of outputs/: whether it is there, and its lines when it is
Absent == [there |-> FALSE, lines |-> <<>>]
File(lines) == [there |-> TRUE, lines |-> lines]

FileNames ==
    {"signals_study_level.csv", "signals_site_level.csv", "dqi_scores.csv",
     "dqi_scores_site_level.csv", "anomalies_site_level.csv",
     "risk_rankings.csv", "risk_rankings_site_level.csv",
     "executive_summary.txt"}

IdleNorm == n_signal = 0 /\ n_threshold = PctScale /\ n_result = 0
IdleTables ==
    /\ study_signals = NoTable /\ site_signals = NoTable
    /\ study_dqi = NoTable /\ site_dqi = NoTable
IdleCat == dqi_scores_series = <<>> /\ risk_series = <<>> /\ risk_before = <<>>
IdleDrv == drv_row = NoRow /\ top_n = 0 /\ top_drivers = <<>>
IdleRank ==
    /\ sort_kind = "stable"
    /\ study_ranks = NoTable /\ site_ranks = NoTable
    /\ prev_study_ranks = NoTable /\ prev_site_ranks = NoTable
\* no stage has run yet
NotRun == [dqi |-> "not run", rank |-> "not run", summary |-> "not run"]

IdlePipe ==
    /\ ANOMALY_DETECTION_AVAILABLE = FALSE
    /\ files = [f \in FileNames |-> Absent]
    /\ stage_result = NotRun

---------------------------------------------------------------------------
(* normalize_signal_vs_threshold on its own *)

InitNorm ==
    /\ pc = "call"
    /\ n_signal \in NormSignals
    /\ n_threshold \in NormThresholds
    /\ n_result = 0
    /\ IdleTables /\ IdleCat /\ IdleDrv /\ IdleRank /\ IdlePipe

Normalize ==
    /\ pc = "call"
    /\ n_result' = normalize_signal_vs_threshold(n_signal, n_threshold)
    /\ pc' = "done"
    /\ UNCHANGED <<n_signal, n_threshold, dqiVars, catVars, drvVars, rankVars,
                   pipeVars>>

NextNorm == Normalize

SpecNorm == InitNorm /\ [][NextNorm]_vars

---------------------------------------------------------------------------
(* compute_dqi_study_level / compute_dqi_site_level on one-row tables *)

SignalRow(p, v, e, c, s) ==
    [study_id            |-> "Study 1",
     missing_pages_pct   |-> p,
     missing_visits_pct  |-> v,
     unresolved_edrr_pct |-> e,
     uncoded_terms_pct   |-> c,
     pending_sae_pct     |-> s]

InitDqi ==
    /\ pc = "call"
    /\ IdleNorm /\ IdleCat /\ IdleDrv /\ IdleRank /\ IdlePipe
    /\ \E p \in SignalGrid(CLINICAL_THRESHOLDS.missing_pages_pct),
          v \in SignalGrid(CLINICAL_THRESHOLDS.missing_visits_pct),
          e \in SignalGrid(CLINICAL_THRESHOLDS.unresolved_edrr_pct),
          c \in SignalGrid(CLINICAL_THRESHOLDS.uncoded_terms_pct),
          s \in SignalGrid(CLINICAL_THRESHOLDS.pending_sae_pct) :
            /\ study_signals = <<SignalRow(p, v, e, c, s)>>
            /\ site_signals = <<[site_id |-> "Site 1"] @@ SignalRow(p, v, e, c, s)>>
    /\ study_dqi = NoTable
    /\ site_dqi = NoTable

ComputeDqiStudyLevel ==
    /\ pc = "call"
    /\ study_dqi' = compute_dqi_study_level(study_signals)
    /\ pc' = "study"
    /\ UNCHANGED <<normVars, catVars, drvVars, rankVars, pipeVars,
                   study_signals, site_signals, site_dqi>>

ComputeDqiSiteLevel ==
    /\ pc = "call"
    /\ site_dqi' = compute_dqi_site_level(site_signals)
    /\ pc' = "site"
    /\ UNCHANGED <<normVars, catVars, drvVars, rankVars, pipeVars,
                   study_signals, site_signals, study_dqi>>

NextDqi == ComputeDqiStudyLevel \/ ComputeDqiSiteLevel

SpecDqi == InitDqi /\ [][NextDqi]_vars

---------------------------------------------------------------------------
(* compute_dqi_study_level and compute_dqi_site_level on a table of two
   rows that are equal except in one signal, larger in the second row *)

\* the row with one signal set to x
WithSignal(r, signal, x) == [r EXCEPT ![signal] = x]

InitMono ==
    /\ pc = "call"
    /\ IdleNorm /\ IdleCat /\ IdleDrv /\ IdleRank /\ IdlePipe
    /\ \E p \in FixedGrid(CLINICAL_THRESHOLDS.missing_pages_pct),
          v \in FixedGrid(CLINICAL_THRESHOLDS.missing_visits_pct),
          e \in FixedGrid(CLINICAL_THRESHOLDS.unresolved_edrr_pct),
          c \in FixedGrid(CLINICAL_THRESHOLDS.uncoded_terms_pct),
          s \in FixedGrid(CLINICAL_THRESHOLDS.pending_sae_pct),
          signal \in {SignalNames[k] : k \in DOMAIN SignalNames} :
            \E x, y \in SignalGrid(CLINICAL_THRESHOLDS[signal]) :
                /\ x < y
                /\ study_signals =
                      <<WithSignal(SignalRow(p, v, e, c, s), signal, x),
                        WithSignal(SignalRow(p, v, e, c, s), signal, y)>>
                /\ site_signals =
                      <<[site_id |-> "Site 1"]
                            @@ WithSignal(SignalRow(p, v, e, c, s), signal, x),
                        [site_id |-> "Site 2"]
                            @@ WithSignal(SignalRow(p, v, e, c, s), signal, y)>>
    /\ study_dqi = NoTable
    /\ site_dqi = NoTable

SpecMono == InitMono /\ [][NextDqi]_vars

---------------------------------------------------------------------------
(* categorize_risk_with_guardrails on its own *)

InitCat ==
    /\ pc = "call"
    /\ IdleNorm /\ IdleTables /\ IdleDrv /\ IdleRank /\ IdlePipe
    /\ dqi_scores_series \in Batches
    /\ risk_series = <<>>
    /\ risk_before = <<>>

Categorize ==
    /\ pc \in {"call", "rescaled"}
    /\ risk_series' = categorize_risk_with_guardrails(dqi_scores_series)
    /\ pc' = IF pc = "call" THEN "done" ELSE "done again"
    /\ UNCHANGED <<normVars, dqiVars, drvVars, rankVars, pipeVars,
                   dqi_scores_series, risk_before>>

NextCat == Categorize

SpecCat == InitCat /\ [][NextCat]_vars

\* Batches of 100 pairwise-distinct scores: start + step * k for k = 0..99,
\* stored in the order k = (mult * i + shift) mod 100, mult prime to 100.
Hundred == 10 * 10
Batch100(start, step, mult, shift) ==
    [i \in 1..Hundred |-> start + step * ((mult * i + shift) % Hundred)]

InitCat100 ==
    /\ pc = "call"
    /\ IdleNorm /\ IdleTables /\ IdleDrv /\ IdleRank /\ IdlePipe
    /\ \E start \in {0, 2500}, step \in {1, 7, 50}, mult \in {1, 3, 99},
          shift \in 0..9 :
            dqi_scores_series = Batch100(start, step, mult, shift)
    /\ risk_series = <<>>
    /\ risk_before = <<>>

SpecCat100 == InitCat100 /\ [][NextCat]_vars

---------------------------------------------------------------------------
(* categorize_risk_with_guardrails called on a batch, then on the batch
   with every score s replaced by k * s + c *)

InitScale ==
    /\ pc = "call"
    /\ IdleNorm /\ IdleTables /\ IdleDrv /\ IdleRank /\ IdlePipe
    /\ dqi_scores_series \in ScaleBatches
    /\ risk_series = <<>>
    /\ risk_before = <<>>

\* the caller comes back with the batch on another scale
Rescale ==
    /\ pc = "done"
    /\ \E k \in ScaleFactors, c \in ScaleOffsets :
          dqi_scores_series' =
              [i \in DOMAIN dqi_scores_series |-> k * dqi_scores_series[i] + c]
    /\ risk_before' = risk_series
    /\ pc' = "rescaled"
    /\ UNCHANGED <<normVars, dqiVars, drvVars, rankVars, pipeVars, risk_series>>

NextScale == Categorize \/ Rescale

SpecScale == InitScale /\ [][NextScale]_vars

---------------------------------------------------------------------------
(* identify_top_penalty_drivers on its own *)

InitDrv ==
    /\ pc = "call"
    /\ IdleNorm /\ IdleTables /\ IdleCat /\ IdleRank /\ IdlePipe
    /\ drv_row \in DriverRows
    /\ top_n \in 0..MaxTopN
    /\ top_drivers = <<>>

IdentifyTopPenaltyDrivers ==
    /\ pc = "call"
    /\ top_drivers' = identify_top_penalty_drivers(drv_row, top_n)
    /\ pc' = "done"
    /\ UNCHANGED <<normVars, dqiVars, catVars, rankVars, pipeVars,
                   drv_row, top_n>>

NextDrv == IdentifyTopPenaltyDrivers

SpecDrv == InitDrv /\ [][NextDrv]_vars

---------------------------------------------------------------------------
(* The files of outputs/ and the anomaly step of compute_dqi.py *)

\* columns that hold text; every other column holds numbers
StringColumns ==
    {"study_id", "site_id", "risk_level", "risk_driver", "top_risk_drivers"}

\* what read_csv gives for an empty field
NaN == "NaN"

\* df.to_csv(path, index=False): the rows as lines of fields; a missing text
\* value is written as an empty field
to_csv(df) ==
    [i \in DOMAIN df |->
        [c \in DOMAIN df[i] |->
            IF c \in StringColumns /\ df[i][c] = NaN THEN "" ELSE df[i][c]]]

\* pd.read_csv(path): an empty field is read as NaN, also where an empty
\* string was written
read_csv(file) ==
    [i \in DOMAIN file |->
        [c \in DOMAIN file[i] |->
            IF c \in StringColumns /\ file[i][c] = "" THEN NaN ELSE file[i][c]]]

\* the check that finds every file there
exists_always(fs, f) == TRUE

\* os.path.exists(path)
exists(fs, f) == fs[f].there

\* points an anomalous site's score is lowered by (the formula is the
\* amplifier's own)
AmplifyDrop == 10 * 100

\* detect_anomalies.detect_site_anomalies: a table keyed like the site table
\* with an anomaly_score and a 0/1 is_anomalous flag per site; flagged is the
\* set of rows the detector finds anomalous
detect_site_anomalies(df, flagged) ==
    [i \in DOMAIN df |->
        [study_id      |-> df[i].study_id,
         site_id       |-> df[i].site_id,
         anomaly_score |-> IF i \in flagged THEN 100 ELSE 0,
         is_anomalous  |-> IF i \in flagged THEN 1 ELSE 0]]

\* detect_anomalies.amplify_risk_for_anomalies: the site table with the
\* anomaly columns and dqi_score_amplified, lower than dqi_score for a
\* flagged site and equal to it for the others
amplify_risk_for_anomalies(df, anomalies) ==
    [i \in DOMAIN df |->
        [anomaly_score       |-> anomalies[i].anomaly_score,
         is_anomalous        |-> anomalies[i].is_anomalous,
         dqi_score_amplified |->
             IF anomalies[i].is_anomalous = 1
             THEN df[i].dqi_score - AmplifyDrop ELSE df[i].dqi_score] @@ df[i]]

RECURSIVE SumOver(_, _, _)
\* sum of column c over the rows of df whose index is in rows
SumOver(df, c, rows) ==
    IF rows = {} THEN 0
    ELSE LET i == CHOOSE j \in rows : TRUE
         IN  df[i][c] + SumOver(df, c, rows \ {i})

\* study_dqi.merge(anomalies_summary, on='study_id', how='left') and the two
\* fillna(0): the mean anomaly_score and the number of flagged sites of
\* each study, 0 for a study without sites
merge_anomalies_summary(studies, anomalies) ==
    [i \in DOMAIN studies |->
        LET rows == {j \in DOMAIN anomalies :
                        anomalies[j].study_id = studies[i].study_id}
        IN  [avg_anomaly_score |->
                 IF rows = {} THEN 0
                 ELSE RoundHalfEven(SumOver(anomalies, "anomaly_score", rows),
                                    Cardinality(rows)),
             num_anomalous_sites |-> SumOver(anomalies, "is_anomalous", rows)]
                @@ studies[i]]

\* the placeholder that sets every amplified score to zero
placeholder_zero(df) ==
    [i \in DOMAIN df |-> [dqi_score_amplified |-> 0] @@ df[i]]

\* site_dqi['dqi_score_amplified'] = site_dqi['dqi_score']
placeholder_amplified(df) ==
    [i \in DOMAIN df |-> [dqi_score_amplified |-> df[i].dqi_score] @@ df[i]]

---------------------------------------------------------------------------
(* generate_summary.py: generate_executive_summary *)

\* the sections of the report in the order the function writes them
SummarySections ==
    <<"header", "aggregate counts", "key findings", "top aggregate drivers",
      "study recommendations", "site summary", "closing recommendations">>

\* the study columns read for the issue totals and the signal summaries
IssueColumns ==
    {"missing_pages", "missing_visits", "unresolved_edrr", "uncoded_terms",
     "pending_sae_reviews"}

\* What the function leaves in the report file (the sections it began, in
\* order) and the exception it ended with, "" for none.  The file is opened,
\* and emptied, first; an exception closes it with what was written so far.
\* The issue totals are taken right after the heading of the fourth section
\* and raise KeyError for a study column that is not there; a study block
\* calls .lower() on top_risk_drivers, which a NaN does not have.
generate_executive_summary(study, site) ==
    IF ~(IssueColumns \subseteq Columns(study))
    THEN [written |-> SubSeq(SummarySections, 1, 4), raised |-> "KeyError"]
    ELSE IF \E i \in DOMAIN study : study[i].top_risk_drivers = NaN
    THEN [written |-> SubSeq(SummarySections, 1, 5), raised |-> "AttributeError"]
    ELSE [written |-> SummarySections, raised |-> ""]

\* how a run of generate_summary.py ends for what the function did
summary_result(out) == IF out.raised = "" THEN "complete" ELSE out.raised

---------------------------------------------------------------------------
(* rank_studies and rank_sites, called in turn as risk_ranking.py does, then
   called again after the tables' dqi_score column has changed *)

InitRank ==
    /\ pc = "call"
    /\ IdleNorm /\ IdleCat /\ IdleDrv /\ IdlePipe
    /\ study_signals = NoTable /\ site_signals = NoTable
    /\ sort_kind \in {"stable", "ties_reversed"}
    /\ \E layout \in Layouts, n \in 1..MaxRows :
          \E ch \in [1..n -> RowChoices(layout)], flagged \in FlaggedSets(layout, n) :
            LET rule_study == compute_dqi_study_level(
                    [i \in 1..n |-> StudySignalRow(i, ch[i].profile)])
                rule_site == compute_dqi_site_level(
                    [i \in 1..n |-> SiteSignalRow(i, ch[i].profile)])
                anomalies_site == detect_site_anomalies(rule_site, flagged)
            IN  /\ study_dqi =
                      IF layout = "plain" THEN rule_study
                      ELSE IF layout = "amplified"
                      THEN [i \in 1..n |->
                              [dqi_score_amplified |-> ch[i].amp] @@ rule_study[i]]
                      ELSE merge_anomalies_summary(rule_study, anomalies_site)
                /\ site_dqi =
                      IF layout = "plain" THEN rule_site
                      ELSE IF layout = "amplified"
                      THEN [i \in 1..n |->
                              [dqi_score_amplified |-> ch[i].amp] @@ rule_site[i]]
                      ELSE amplify_risk_for_anomalies(rule_site, anomalies_site)
    /\ study_ranks = NoTable /\ site_ranks = NoTable
    /\ prev_study_ranks = NoTable /\ prev_site_ranks = NoTable

\* the order equal keys come out of a sort in when a call is repeated by a
\* build whose order changes from call to call
tie_order_per_call ==
    IF pc \in {"unchanged", "studies rerun"}
    THEN (IF sort_kind = "stable" THEN "ties_reversed" ELSE "stable")
    ELSE sort_kind

\* the order equal keys come out of a sort in: the sort has no random
\* choice, so a build gives the same order in every call
tie_order == sort_kind

RankStudies ==
    /\ pc \in {"call", "changed", "unchanged"}
    /\ study_ranks' = rank_studies(study_dqi, tie_order)
    /\ pc' = IF pc = "call" THEN "studies"
             ELSE IF pc = "changed" THEN "studies again" ELSE "studies rerun"
    /\ UNCHANGED <<normVars, dqiVars, catVars, drvVars, pipeVars, sort_kind,
                   site_ranks, prev_study_ranks, prev_site_ranks>>

RankSites ==
    /\ pc \in {"studies", "studies again", "studies rerun"}
    /\ site_ranks' = rank_sites(site_dqi, tie_order)
    /\ pc' = IF pc = "studies" THEN "ranked"
             ELSE IF pc = "studies again" THEN "ranked again" ELSE "ranked rerun"
    /\ UNCHANGED <<normVars, dqiVars, catVars, drvVars, pipeVars, sort_kind,
                   study_ranks, prev_study_ranks, prev_site_ranks>>

\* The caller comes back with tables that differ from the ranked ones in
\* the dqi_score column alone (every score s replaced by 100 - s).
ChangeBaseScores ==
    /\ pc = "ranked"
    /\ study_dqi' = [i \in DOMAIN study_dqi |->
            [study_dqi[i] EXCEPT !.dqi_score = 100 * 100 - @]]
    /\ site_dqi' = [i \in DOMAIN site_dqi |->
            [site_dqi[i] EXCEPT !.dqi_score = 100 * 100 - @]]
    /\ prev_study_ranks' = study_ranks
    /\ prev_site_ranks' = site_ranks
    /\ pc' = "changed"
    /\ UNCHANGED <<normVars, catVars, drvVars, pipeVars, study_signals,
                   site_signals, sort_kind, study_ranks, site_ranks>>

\* The caller comes back with the same tables.
CallAgainUnchanged ==
    /\ pc = "ranked"
    /\ prev_study_ranks' = study_ranks
    /\ prev_site_ranks' = site_ranks
    /\ pc' = "unchanged"
    /\ UNCHANGED <<normVars, dqiVars, catVars, drvVars, pipeVars,
                   sort_kind, study_ranks, site_ranks>>

\* generate_executive_summary called with the two tables just returned
GenerateExecutiveSummary ==
    /\ pc = "ranked"
    /\ LET out == generate_executive_summary(study_ranks, site_ranks)
       IN  /\ files' = [files EXCEPT !["executive_summary.txt"] = File(out.written)]
           /\ stage_result' = [stage_result EXCEPT !.summary = summary_result(out)]
    /\ pc' = "summarised"
    /\ UNCHANGED <<normVars, dqiVars, catVars, drvVars, rankVars,
                   ANOMALY_DETECTION_AVAILABLE>>

NextRank ==
    \/ RankStudies \/ RankSites \/ ChangeBaseScores \/ CallAgainUnchanged
    \/ GenerateExecutiveSummary

SpecRank == InitRank /\ [][NextRank]_vars

---------------------------------------------------------------------------
(* compute_dqi.py and risk_ranking.py run as scripts, one after the other *)

\* the two tables compute_dqi.py saves: rule-based DQI, then the anomaly
\* columns when the detector was imported, the placeholder column otherwise
dqi_outputs(study_sig, site_sig, flagged) ==
    LET rule_study == compute_dqi_study_level(study_sig)
        rule_site == compute_dqi_site_level(site_sig)
        anomalies_site == detect_site_anomalies(rule_site, flagged)
    IN  IF ANOMALY_DETECTION_AVAILABLE
        THEN [study |-> merge_anomalies_summary(rule_study, anomalies_site),
              site |-> amplify_risk_for_anomalies(rule_site, anomalies_site),
              anomalies |-> anomalies_site]
        ELSE [study |-> rule_study,
              site |-> placeholder_amplified(rule_site),
              anomalies |-> NoTable]

InitPipe ==
    /\ pc = "pipeline"
    /\ IdleNorm /\ IdleCat /\ IdleDrv /\ IdleTables
    /\ ANOMALY_DETECTION_AVAILABLE \in BOOLEAN
    /\ sort_kind \in {"stable", "ties_reversed"}
    /\ \E n \in 1..MaxRows :
          \E profile \in [1..n -> DOMAIN Profiles],
             present \in SUBSET {"signals_study_level.csv", "signals_site_level.csv"} :
            files = [f \in FileNames |->
                IF f \notin present THEN Absent
                ELSE IF f = "signals_study_level.csv"
                THEN File(to_csv([i \in 1..n |-> StudySignalRow(i, profile[i])]))
                ELSE File(to_csv([i \in 1..n |-> SiteSignalRow(i, profile[i])]))]
    /\ study_ranks = NoTable /\ site_ranks = NoTable
    /\ prev_study_ranks = NoTable /\ prev_site_ranks = NoTable
    /\ stage_result = NotRun

\* Each script is run once, in any order, before or after a file was
\* removed.
Running(stage) ==
    /\ pc \in {"pipeline", "file removed"}
    /\ stage_result[stage] = "not run"

\* compute_dqi.py run as a script
DqiStage ==
    /\ Running("dqi")
    /\ IF ~exists(files, "signals_study_level.csv")
            \/ ~exists(files, "signals_site_level.csv")
       THEN /\ stage_result' = [stage_result EXCEPT !.dqi = "missing prerequisite"]
            /\ UNCHANGED <<files, dqiVars>>
       ELSE \E flagged \in FlaggedSets(
                    IF ANOMALY_DETECTION_AVAILABLE THEN "anomaly" ELSE "plain",
                    Len(files["signals_site_level.csv"].lines)) :
              LET study_sig == read_csv(files["signals_study_level.csv"].lines)
                  site_sig == read_csv(files["signals_site_level.csv"].lines)
                  out == dqi_outputs(study_sig, site_sig, flagged)
              IN  /\ study_signals' = study_sig
                  /\ site_signals' = site_sig
                  /\ study_dqi' = out.study
                  /\ site_dqi' = out.site
                  /\ files' = [files EXCEPT
                        !["anomalies_site_level.csv"] =
                            IF ANOMALY_DETECTION_AVAILABLE
                            THEN File(to_csv(out.anomalies)) ELSE @,
                        !["dqi_scores.csv"] = File(to_csv(out.study)),
                        !["dqi_scores_site_level.csv"] = File(to_csv(out.site))]
                  /\ stage_result' = [stage_result EXCEPT !.dqi = "complete"]
    /\ UNCHANGED <<pc, normVars, catVars, drvVars, rankVars,
                   ANOMALY_DETECTION_AVAILABLE>>

\* risk_ranking.py run as a script
RankStage ==
    /\ Running("rank")
    /\ IF ~exists(files, "dqi_scores.csv")
            \/ ~exists(files, "dqi_scores_site_level.csv")
       THEN /\ stage_result' = [stage_result EXCEPT !.rank = "missing prerequisite"]
            /\ UNCHANGED <<files, study_dqi, site_dqi, study_ranks, site_ranks>>
       ELSE LET study_in == read_csv(files["dqi_scores.csv"].lines)
                site_in == read_csv(files["dqi_scores_site_level.csv"].lines)
                study_out == rank_studies(study_in, sort_kind)
                site_out == rank_sites(site_in, sort_kind)
            IN  /\ study_dqi' = study_in
                /\ site_dqi' = site_in
                /\ study_ranks' = study_out
                /\ site_ranks' = site_out
                /\ files' = [files EXCEPT
                      !["risk_rankings.csv"] = File(to_csv(study_out)),
                      !["risk_rankings_site_level.csv"] = File(to_csv(site_out))]
                /\ stage_result' = [stage_result EXCEPT !.rank = "complete"]
    /\ UNCHANGED <<pc, normVars, catVars, drvVars, study_signals, site_signals,
                   sort_kind, prev_study_ranks, prev_site_ranks,
                   ANOMALY_DETECTION_AVAILABLE>>

\* generate_summary.py run as a script
SummaryStage ==
    /\ Running("summary")
    /\ IF ~exists(files, "risk_rankings.csv")
            \/ ~exists(files, "risk_rankings_site_level.csv")
       THEN /\ stage_result' = [stage_result EXCEPT !.summary = "missing prerequisite"]
            /\ UNCHANGED files
       ELSE LET out == generate_executive_summary(
                           read_csv(files["risk_rankings.csv"].lines),
                           read_csv(files["risk_rankings_site_level.csv"].lines))
            IN  /\ files' = [files EXCEPT
                      !["executive_summary.txt"] = File(out.written)]
                /\ stage_result' = [stage_result EXCEPT
                      !.summary = summary_result(out)]
    /\ UNCHANGED <<pc, normVars, dqiVars, catVars, drvVars, rankVars,
                   ANOMALY_DETECTION_AVAILABLE>>

\* the files a stage leaves for the next one, with the stage that reads them
ReaderOf ==
    [f \in {"dqi_scores.csv", "dqi_scores_site_level.csv"} |-> "rank"]
        @@ [f \in {"risk_rankings.csv", "risk_rankings_site_level.csv"} |-> "summary"]

\* Someone deletes one of the intermediate files before the stage that
\* reads it is run (once in a behaviour).
RemoveFile ==
    /\ pc = "pipeline"
    /\ \E f \in DOMAIN ReaderOf :
          /\ exists(files, f)
          /\ stage_result[ReaderOf[f]] = "not run"
          /\ files' = [files EXCEPT ![f] = Absent]
    /\ pc' = "file removed"
    /\ UNCHANGED <<normVars, dqiVars, catVars, drvVars, rankVars,
                   ANOMALY_DETECTION_AVAILABLE, stage_result>>

NextPipe == DqiStage \/ RankStage \/ SummaryStage \/ RemoveFile

SpecPipe == InitPipe /\ [][NextPipe]_vars

---------------------------------------------------------------------------
(* Properties of the DQI records *)

Abs(x) == IF x < 0 THEN 0 - x ELSE x

\* the records a compute_dqi_*_level call has returned
DqiRecords ==
    {study_dqi[i] : i \in DOMAIN study_dqi} \cup {site_dqi[i] : i \in DOMAIN site_dqi}

PenaltySum(r) ==
    r.penalty_pages + r.penalty_visits + r.penalty_edrr + r.penalty_codes
        + r.penalty_sae

\* <<signal, threshold, weight, stored penalty>> of each of the five signals
SignalFacts(r) ==
    {<<r.missing_pages_pct, 5 * PctScale, 10, r.penalty_pages>>,
     <<r.missing_visits_pct, 10 * PctScale, 15, r.penalty_visits>>,
     <<r.unresolved_edrr_pct, 8 * PctScale, 15, r.penalty_edrr>>,
     <<r.uncoded_terms_pct, 7 * PctScale, 12, r.penalty_codes>>,
     <<r.pending_sae_pct, 5 * PctScale, 25, r.penalty_sae>>}

\* C3: in every record returned by compute_dqi_study_level or
\* compute_dqi_site_level, dqi_score plus the five stored penalties differs
\* from 100 by at most 0.02 (2 hundredths).
C3_SumWithinTolerance ==
    \A r \in DqiRecords : Abs(r.dqi_score + PenaltySum(r) - 100 * 100) <= 2

\* a returned record whose stored values miss 100 by the full 0.02
C3_Witness ==
    /\ pc = "study"
    /\ \E r \in DqiRecords : Abs(r.dqi_score + PenaltySum(r) - 100 * 100) = 2

\* C4 as stated: every stored penalty is non-negative, and is zero if and
\* only if the raw signal is at or below its clinical threshold.
C4_ZeroIffAtOrBelowThreshold ==
    \A r \in DqiRecords : \A f \in SignalFacts(r) :
        /\ f[4] >= 0
        /\ (f[4] = 0) <=> (f[1] <= f[2])

\* C4 amended: every stored penalty is non-negative; it is zero whenever the
\* signal is at or below its threshold; and a signal above its threshold is
\* stored as zero only when its unrounded contribution
\* (signal - threshold) / threshold * 100 * weight / 77 is at most 0.005.
C4_ZeroWhenAtOrBelowThreshold ==
    \A r \in DqiRecords : \A f \in SignalFacts(r) :
        /\ f[4] >= 0
        /\ (f[1] <= f[2]) => (f[4] = 0)
        /\ (f[4] = 0 /\ f[1] > f[2]) =>
               (f[1] - f[2]) * 100 * f[3] * 200 <= 77 * f[2]
        /\ (f[4] > 0) => (f[1] > f[2])

\* a returned record with a signal above its threshold and a stored penalty
\* of 0.00
C4_Witness ==
    /\ pc = "site"
    /\ \E r \in DqiRecords : \E f \in SignalFacts(r) : f[1] > f[2] /\ f[4] = 0

\* C5: normalize_signal_vs_threshold returns 0 when signal <= threshold and
\* min(100, (signal - threshold) / threshold * 100) otherwise; the result is
\* within [0, 100] and is exactly 100 when signal = 2 * threshold.
C5_NormalizeContract ==
    (pc = "done") =>
        LET s == n_signal
            t == n_threshold
            r == n_result
        IN  /\ (s <= t) => (r = 0)
            /\ (s > t /\ s - t <= t) =>
                   r * (t \div PctScale) = (s - t) * ((100 * NormScale) \div PctScale)
            /\ (s - t > t) => (r = 100 * NormScale)
            /\ 0 <= r /\ r <= 100 * NormScale
            /\ (s = 2 * t) => (r = 100 * NormScale)

\* the normalizer has returned exactly 100 for a signal above 100
C5_Witness ==
    /\ pc = "done"
    /\ n_signal > 100 * PctScale
    /\ n_result = 100 * NormScale

\* 100 * weight * min(100, max(0, (signal - threshold) / threshold * 100)),
\* in units of 1/2800; mult = 2800 * 100 / threshold (threshold in
\* thousandths)
Contribution(signal, threshold, mult, weight) ==
    weight * (IF signal <= threshold THEN 0
              ELSE Min((signal - threshold) * mult, 280000))

\* 2800 * (weighted sum of the five normalized penalties), weights 10, 15,
\* 15, 12, 25 and thresholds 5, 10, 8, 7, 5
WeightedSum2800(r) ==
    Contribution(r.missing_pages_pct, 5000, 56, 10)
        + Contribution(r.missing_visits_pct, 10000, 28, 15)
        + Contribution(r.unresolved_edrr_pct, 8000, 35, 15)
        + Contribution(r.uncoded_terms_pct, 7000, 40, 12)
        + Contribution(r.pending_sae_pct, 5000, 56, 25)

\* C6: the stored dqi_score is 100 minus the weighted mean (weights 10, 15,
\* 15, 12, 25, total 77; thresholds 5, 10, 8, 7, 5) rounded to 2 decimals,
\* that is, within half a hundredth of it; and signals {pages 0, visits 20,
\* edrr 0, codes 0, sae 0} give dqi_score 80.52 and penalty_visits 19.48.
C6_DqiIsHundredMinusWeightedMean ==
    \A r \in DqiRecords :
        /\ 2 * Abs(2156 * r.dqi_score - (21560000 - WeightedSum2800(r))) <= 2156
        /\ ( /\ r.missing_pages_pct = 0 /\ r.missing_visits_pct = 20000
             /\ r.unresolved_edrr_pct = 0 /\ r.uncoded_terms_pct = 0
             /\ r.pending_sae_pct = 0 )
               => (r.dqi_score = 8052 /\ r.penalty_visits = 1948)

\* the record of the example scenario has been computed
C6_Witness ==
    /\ pc = "study"
    /\ \E r \in DqiRecords :
          /\ r.missing_pages_pct = 0 /\ r.missing_visits_pct = 20000
          /\ r.unresolved_edrr_pct = 0 /\ r.uncoded_terms_pct = 0
          /\ r.pending_sae_pct = 0
          /\ r.dqi_score = 8052

InRange(r) ==
    \A f \in SignalFacts(r) : 0 <= f[1] /\ f[1] <= 100 * PctScale

\* C7: for signals in [0, 100] the dqi_score lies in [0, 100]; it is 100 when
\* no signal exceeds its threshold and 0 when every signal is at least twice
\* its threshold.
C7_DqiInRange ==
    \A r \in DqiRecords :
        InRange(r) =>
            /\ 0 <= r.dqi_score /\ r.dqi_score <= 100 * 100
            /\ (\A f \in SignalFacts(r) : f[1] <= f[2]) => (r.dqi_score = 100 * 100)
            /\ (\A f \in SignalFacts(r) : f[1] >= 2 * f[2]) => (r.dqi_score = 0)

\* a site record with every signal in range and at least twice its
\* threshold, scored 0
C7_Witness ==
    /\ pc = "site"
    /\ \E r \in DqiRecords :
          /\ InRange(r)
          /\ \A f \in SignalFacts(r) : f[1] >= 2 * f[2]
          /\ r.dqi_score = 0

\* the penalty column of each signal
PenaltyColumn ==
    [missing_pages_pct |-> "penalty_pages", missing_visits_pct |-> "penalty_visits",
     unresolved_edrr_pct |-> "penalty_edrr", uncoded_terms_pct |-> "penalty_codes",
     pending_sae_pct |-> "penalty_sae"]

\* records a and b are equal in every signal but this one, larger in b
LargerIn(a, b, signal) ==
    /\ a[signal] < b[signal]
    /\ \A other \in DOMAIN PenaltyColumn \ {signal} : a[other] = b[other]

\* of two records of one table that differ in one signal, the one with the
\* larger signal has no higher dqi_score, no lower penalty for that signal
\* and the same four other penalties
MonotoneIn(df) ==
    \A i, j \in DOMAIN df : \A signal \in DOMAIN PenaltyColumn :
        LargerIn(df[i], df[j], signal) =>
            /\ df[j].dqi_score <= df[i].dqi_score
            /\ df[j][PenaltyColumn[signal]] >= df[i][PenaltyColumn[signal]]
            /\ \A other \in DOMAIN PenaltyColumn \ {signal} :
                  df[j][PenaltyColumn[other]] = df[i][PenaltyColumn[other]]

\* C20: the stored dqi_score is non-increasing in every signal: of two
\* records equal except in one signal, the one where it is larger has a
\* dqi_score that is not higher and a penalty for that signal that is not
\* lower, and the four other penalties are the same.
C20_DqiMonotoneInSignals ==
    MonotoneIn(study_dqi) /\ MonotoneIn(site_dqi)

\* two site records that differ in missing visits alone, the first without
\* a penalty for them, the second with one and with the lower score, both
\* carrying a penalty for pending SAE reviews
C20_Witness ==
    /\ pc = "site"
    /\ Len(site_dqi) = 2
    /\ LargerIn(site_dqi[1], site_dqi[2], "missing_visits_pct")
    /\ site_dqi[1].penalty_visits = 0
    /\ site_dqi[2].penalty_visits > 0
    /\ site_dqi[2].dqi_score < site_dqi[1].dqi_score
    /\ site_dqi[1].penalty_sae > 0

---------------------------------------------------------------------------
(* Properties of the risk categorizer *)

\* the positions of the series labelled tier
Labelled(tier) == {i \in DOMAIN risk_series : risk_series[i] = tier}

\* the positions holding the scores ranked from..to (1 = lowest) of a batch
\* of pairwise-distinct scores
RankedFromTo(from, to) ==
    {i \in DOMAIN dqi_scores_series :
        LET below == Cardinality({j \in DOMAIN dqi_scores_series :
                                     dqi_scores_series[j] < dqi_scores_series[i]})
        IN  from <= below + 1 /\ below + 1 <= to}

\* C1 as stated: on a batch of 100 pairwise-distinct scores exactly the 10
\* lowest are "High Risk", exactly the next 15 lowest are "Medium Risk" and
\* the remaining 75 are "Low Risk".
C1_WorstTenPercentHigh ==
    (pc = "done" /\ Len(dqi_scores_series) = 100) =>
        /\ Labelled("High Risk") = RankedFromTo(1, 10)
        /\ Labelled("Medium Risk") = RankedFromTo(11, 25)
        /\ Labelled("Low Risk") = RankedFromTo(26, 100)

\* C2 as stated: with p90 and p75 the 0.90 and 0.75 quantiles of the batch,
\* a score s is "High Risk" when s <= p90, "Medium Risk" when
\* p90 < s <= p75 and "Low Risk" when s > p75, one tier per score at the
\* score's position.
C2_TiersByQuantileBands ==
    (pc = "done") =>
        /\ DOMAIN risk_series = DOMAIN dqi_scores_series
        /\ \A i \in DOMAIN dqi_scores_series :
              LET s == dqi_scores_series[i]
                  p90x10 == quantile(dqi_scores_series, 9, 10)
                  p75x4 == quantile(dqi_scores_series, 3, 4)
              IN  /\ (10 * s <= p90x10) => (risk_series[i] = "High Risk")
                  /\ (10 * s > p90x10 /\ 4 * s <= p75x4)
                         => (risk_series[i] = "Medium Risk")
                  /\ (4 * s > p75x4) => (risk_series[i] = "Low Risk")

\* C14: the batch {k * s + c}, k positive, gets the same tier at every
\* position as the original batch.
C14_TiersScaleInvariant ==
    (pc = "done again") =>
        /\ DOMAIN risk_series = DOMAIN dqi_scores_series
        /\ risk_series = risk_before

\* a batch of four scores with both tiers, categorized again after the
\* scores were tripled and raised by 2.5 points
C14_Witness ==
    /\ pc = "done again"
    /\ Len(risk_series) = 4
    /\ \E i, j \in DOMAIN dqi_scores_series :
          /\ dqi_scores_series[i] = 3 * 300 + 250
          /\ dqi_scores_series[j] = 3 * 100 + 250
          /\ risk_series[i] = "Low Risk"
          /\ risk_series[j] = "High Risk"

Severity(tier) ==
    IF tier = "High Risk" THEN 3 ELSE IF tier = "Medium Risk" THEN 2 ELSE 1

\* C19: within a batch the tier is monotone in the score: a score that is
\* not higher gets a tier at least as severe, equal scores get equal tiers,
\* and the lowest score of a non-empty batch is "High Risk" (a batch of
\* identical scores is all "High Risk").
C19_TierMonotoneInScore ==
    (pc = "done") =>
        /\ \A i, j \in DOMAIN dqi_scores_series :
              /\ (dqi_scores_series[i] <= dqi_scores_series[j])
                     => Severity(risk_series[i]) >= Severity(risk_series[j])
              /\ (dqi_scores_series[i] = dqi_scores_series[j])
                     => risk_series[i] = risk_series[j]
        /\ \A i \in DOMAIN dqi_scores_series :
              (\A j \in DOMAIN dqi_scores_series :
                    dqi_scores_series[i] <= dqi_scores_series[j])
                  => risk_series[i] = "High Risk"

\* a batch of four identical scores categorized, all of them High Risk
C19_Witness ==
    /\ pc = "done"
    /\ Len(dqi_scores_series) = 4
    /\ \A i \in DOMAIN dqi_scores_series :
          /\ dqi_scores_series[i] = dqi_scores_series[1]
          /\ risk_series[i] = "High Risk"

---------------------------------------------------------------------------
(* Properties of the driver attributor *)

DriverLabels ==
    <<"CRF Pages", "Missing Visits", "EDRR Queries", "Uncoded Terms", "SAE Reviews">>

\* position of a label in the declared order
DeclaredAt(label) == CHOOSE k \in 1..5 : DriverLabels[k] = label

\* the penalty the attributor reads for the k-th signal of the row: the
\* penalty column when the row has penalty columns, the raw percentage
\* otherwise, 0 when the column is absent
PenaltyRead(k) ==
    LET pcol == <<"penalty_pages", "penalty_visits", "penalty_edrr",
                  "penalty_codes", "penalty_sae">>[k]
        scol == SignalNames[k]
        c == IF "penalty_pages" \in DOMAIN drv_row THEN pcol ELSE scol
    IN  IF c \in DOMAIN drv_row THEN drv_row[c] ELSE 0

\* C8: the attributor returns at most n labels, none with a penalty <= 0,
\* in descending order of penalty with equal penalties in declared order,
\* and omits no label whose positive penalty is strictly larger than that of
\* a returned label.
C8_TopDrivers ==
    (pc = "done") =>
        /\ Len(top_drivers) <= top_n
        /\ \A i \in DOMAIN top_drivers :
              /\ top_drivers[i] \in {DriverLabels[k] : k \in 1..5}
              /\ PenaltyRead(DeclaredAt(top_drivers[i])) > 0
        /\ \A i, j \in DOMAIN top_drivers :
              i < j =>
                LET a == DeclaredAt(top_drivers[i])
                    b == DeclaredAt(top_drivers[j])
                IN  \/ PenaltyRead(a) > PenaltyRead(b)
                    \/ PenaltyRead(a) = PenaltyRead(b) /\ a < b
        /\ \A k \in 1..5 : \A i \in DOMAIN top_drivers :
              PenaltyRead(k) > PenaltyRead(DeclaredAt(top_drivers[i]))
                  => \E j \in DOMAIN top_drivers : top_drivers[j] = DriverLabels[k]

\* two labels returned for top_n = 2 out of three equal positive penalties,
\* the first two in declared order, a zero-penalty signal left out
C8_Witness ==
    /\ pc = "done"
    /\ top_n = 2
    /\ top_drivers = <<"Missing Visits", "EDRR Queries">>
    /\ PenaltyRead(1) = 0
    /\ PenaltyRead(2) = PenaltyRead(3)
    /\ PenaltyRead(5) = PenaltyRead(2)

---------------------------------------------------------------------------
(* Properties of the ranking functions *)

\* the row of table df whose column idcol holds id
RowOf(df, idcol, id) == df[CHOOSE i \in DOMAIN df : df[i][idcol] = id]

\* the score the claim says a table is ranked by
ClaimedColumn(df) ==
    IF \A i \in DOMAIN df : "dqi_score_amplified" \in DOMAIN df[i]
    THEN "dqi_score_amplified" ELSE "dqi_score"

\* ranks (a table returned for input df, its rows told apart by idcol and
\* ranked in rankcol) takes its tiers and its order from the claimed column
RankedByClaimedColumn(ranks, df, idcol, rankcol) ==
    LET c == ClaimedColumn(df)
        tiers == categorize_risk_with_guardrails([i \in DOMAIN df |-> df[i][c]])
    IN  /\ Len(ranks) = Len(df)
        /\ \A i \in DOMAIN df :
              RowOf(ranks, idcol, df[i][idcol]).risk_level = tiers[i]
        /\ \A a, b \in DOMAIN ranks :
              ranks[a][rankcol] < ranks[b][rankcol] =>
                  RowOf(df, idcol, ranks[a][idcol])[c]
                      <= RowOf(df, idcol, ranks[b][idcol])[c]

\* two returned tables give every row the same tier and the same rank
SameTiersAndRanks(ranks, prev, idcol, rankcol) ==
    /\ Len(ranks) = Len(prev)
    /\ \A k \in DOMAIN ranks :
          LET q == RowOf(prev, idcol, ranks[k][idcol])
          IN  /\ q.risk_level = ranks[k].risk_level
              /\ q[rankcol] = ranks[k][rankcol]

\* C9: rank_studies and rank_sites take risk_level and the rank order from
\* dqi_score_amplified when the table has that column and from dqi_score
\* otherwise; with the column present, a table that differs in dqi_score
\* alone gets the same tiers and the same ranks.
C9_AmplifiedScorePreferred ==
    /\ (pc \in {"studies", "ranked", "studies again", "ranked again"}) =>
           RankedByClaimedColumn(study_ranks, study_dqi, "study_id", "rank")
    /\ (pc \in {"ranked", "ranked again"}) =>
           RankedByClaimedColumn(site_ranks, site_dqi, "site_id", "global_rank")
    /\ (pc \in {"studies again", "ranked again"}
            /\ "dqi_score_amplified" \in Columns(study_dqi)) =>
           SameTiersAndRanks(study_ranks, prev_study_ranks, "study_id", "rank")
    /\ (pc = "ranked again" /\ "dqi_score_amplified" \in Columns(site_dqi)) =>
           SameTiersAndRanks(site_ranks, prev_site_ranks, "site_id", "global_rank")

\* sites ranked twice on tables that agree on dqi_score_amplified and differ
\* on dqi_score, the amplified order being the reverse of the first
\* dqi_score order
C9_Witness ==
    /\ pc = "ranked again"
    /\ "dqi_score_amplified" \in Columns(site_dqi)
    /\ Len(site_ranks) = 3
    /\ \A k \in DOMAIN site_ranks : site_ranks[k].dqi_score # prev_site_ranks[k].dqi_score
    /\ prev_site_ranks[1].dqi_score > prev_site_ranks[3].dqi_score
    /\ site_ranks[1].risk_level # site_ranks[3].risk_level

\* the states in which study_ranks, and those in which site_ranks, is what
\* the ranking function returned for the table now in study_dqi, site_dqi
StudiesRanked ==
    pc \in {"studies", "ranked", "studies again", "ranked again", "unchanged",
            "studies rerun", "ranked rerun"}
SitesRanked == pc \in {"ranked", "ranked again", "unchanged", "ranked rerun"}

\* the score of the row of df with this id in the column df is ranked by
ChosenScore(df, idcol, id) == RowOf(df, idcol, id)[dqi_column(df)]

\* ranks has one row per row of df, ranked 1..N in rankcol in the order of
\* the rows, worst chosen score first
RanksOneToN(ranks, df, idcol, rankcol) ==
    /\ Len(ranks) = Len(df)
    /\ {ranks[k][idcol] : k \in DOMAIN ranks} = {df[i][idcol] : i \in DOMAIN df}
    /\ {ranks[k][rankcol] : k \in DOMAIN ranks} = 1..Len(df)
    /\ \A a, b \in DOMAIN ranks :
          /\ (a # b) => ranks[a][rankcol] # ranks[b][rankcol]
          /\ (ranks[a][rankcol] < ranks[b][rankcol]) =>
                /\ a < b
                /\ ChosenScore(df, idcol, ranks[a][idcol])
                       <= ChosenScore(df, idcol, ranks[b][idcol])

\* C11: rank (rank_studies) and global_rank (rank_sites) are exactly 1..N,
\* each used once, one per input row, and a smaller rank goes with a score
\* in the chosen DQI column that is not higher.
C11_RanksAreOneToNWorstFirst ==
    /\ StudiesRanked => RanksOneToN(study_ranks, study_dqi, "study_id", "rank")
    /\ SitesRanked => RanksOneToN(site_ranks, site_dqi, "site_id", "global_rank")

\* three sites ranked whose input order is the reverse of the ranked order
C11_Witness ==
    /\ pc = "ranked"
    /\ Len(site_dqi) = 3
    /\ site_dqi[1][dqi_column(site_dqi)] > site_dqi[2][dqi_column(site_dqi)]
    /\ site_dqi[2][dqi_column(site_dqi)] > site_dqi[3][dqi_column(site_dqi)]
    /\ site_ranks[1].site_id = site_dqi[3].site_id
    /\ site_ranks[3].global_rank = 3

\* the rows of the ranked site table that belong to a study
SitesOf(ranks, study) == {k \in DOMAIN ranks : ranks[k].study_id = study}

\* C12: within_study_rank restarts per study: a study with k sites has the
\* values 1..k, and of two sites of a study the one with the smaller
\* within_study_rank has the smaller global_rank and a chosen score that is
\* not higher.
C12_WithinStudyRankRestarts ==
    SitesRanked =>
        \A study \in {site_ranks[k].study_id : k \in DOMAIN site_ranks} :
            LET rows == SitesOf(site_ranks, study)
            IN  /\ {site_ranks[k].within_study_rank : k \in rows}
                       = 1..Cardinality(rows)
                /\ \A a, b \in rows :
                      /\ (a # b) => site_ranks[a].within_study_rank
                                        # site_ranks[b].within_study_rank
                      /\ (site_ranks[a].within_study_rank
                              < site_ranks[b].within_study_rank) =>
                            /\ site_ranks[a].global_rank < site_ranks[b].global_rank
                            /\ ChosenScore(site_dqi, "site_id", site_ranks[a].site_id)
                                   <= ChosenScore(site_dqi, "site_id", site_ranks[b].site_id)

\* a study's two sites ranked first and third, the other study's site
\* between them
C12_Witness ==
    /\ pc = "ranked"
    /\ Len(site_ranks) = 3
    /\ site_ranks[1].study_id = site_ranks[3].study_id
    /\ site_ranks[2].study_id # site_ranks[1].study_id
    /\ site_ranks[3].within_study_rank = 2
    /\ site_ranks[2].within_study_rank = 1

\* C13: a site's risk_driver is "ML-Detected Anomaly" exactly when the
\* input has an is_anomalous column, the site's is_anomalous is 1 and its
\* risk_level is "High Risk"; every other site is "Rule-based"; the label
\* is that of the same site after the sort.
C13_RiskDriverIff ==
    SitesRanked =>
        \A k \in DOMAIN site_ranks :
            LET q == RowOf(site_dqi, "site_id", site_ranks[k].site_id)
                flagged == /\ "is_anomalous" \in Columns(site_dqi)
                           /\ q.is_anomalous = 1
                           /\ site_ranks[k].risk_level = "High Risk"
            IN  /\ site_ranks[k].risk_driver
                       \in {"ML-Detected Anomaly", "Rule-based"}
                /\ (site_ranks[k].risk_driver = "ML-Detected Anomaly") <=> flagged

\* three sites all flagged anomalous, sorted out of input order, the worst
\* High Risk and the best Low Risk
C13_Witness ==
    /\ pc = "ranked"
    /\ Len(site_ranks) = 3
    /\ "is_anomalous" \in Columns(site_dqi)
    /\ \A i \in DOMAIN site_dqi : site_dqi[i].is_anomalous = 1
    /\ site_ranks[1].site_id # site_dqi[1].site_id
    /\ site_ranks[1].risk_driver = "ML-Detected Anomaly"
    /\ site_ranks[3].risk_level = "Low Risk"
    /\ site_ranks[3].risk_driver = "Rule-based"

---------------------------------------------------------------------------
(* Properties of the stages *)

\* the rows of a file of outputs/ as read_csv gives them
Saved(f) == read_csv(files[f].lines)

\* row r holds every column of row q with q's value
Extends(r, q) == \A c \in DOMAIN q : c \in DOMAIN r /\ r[c] = q[c]

\* number of rows of df flagged is_anomalous
NumFlagged(df) ==
    Cardinality({i \in DOMAIN df :
        "is_anomalous" \in DOMAIN df[i] /\ df[i].is_anomalous = 1})

\* C10: without the anomaly-detection module the DQI stage still completes
\* and saves the rule-based output: every site row has dqi_score_amplified
\* equal to dqi_score, no site is flagged is_anomalous and no study counts
\* an anomalous site, and rank_sites then labels every site "Rule-based".
C10_DegradesToRuleBased ==
    ~ANOMALY_DETECTION_AVAILABLE =>
        /\ (/\ exists(files, "signals_study_level.csv")
            /\ exists(files, "signals_site_level.csv")
            /\ stage_result.dqi # "not run") =>
                stage_result.dqi = "complete"
        /\ (stage_result.dqi = "complete" /\ pc = "pipeline") =>
              /\ exists(files, "dqi_scores.csv")
              /\ exists(files, "dqi_scores_site_level.csv")
        /\ stage_result.dqi = "complete" =>
              /\ ~exists(files, "anomalies_site_level.csv")
              /\ LET site == Saved("dqi_scores_site_level.csv")
                     study == Saved("dqi_scores.csv")
                     rule_site == compute_dqi_site_level(Saved("signals_site_level.csv"))
                     rule_study == compute_dqi_study_level(Saved("signals_study_level.csv"))
                 IN  /\ exists(files, "dqi_scores_site_level.csv") =>
                            Len(site) = Len(rule_site)
                     /\ exists(files, "dqi_scores.csv") => study = rule_study
                     /\ \A i \in DOMAIN site :
                           /\ Extends(site[i], rule_site[i])
                           /\ site[i].dqi_score_amplified = site[i].dqi_score
                     /\ NumFlagged(site) = 0
                     /\ \A i \in DOMAIN study :
                           get(study[i], "num_anomalous_sites") = 0
        /\ stage_result.rank = "complete" =>
              /\ Len(site_ranks) = Len(Saved("signals_site_level.csv"))
              /\ \A k \in DOMAIN site_ranks :
                    site_ranks[k].risk_driver = "Rule-based"
              /\ \A k \in DOMAIN Saved("risk_rankings_site_level.csv") :
                    Saved("risk_rankings_site_level.csv")[k].risk_driver = "Rule-based"

\* the two stages have run without the module on three sites, one of them High
\* Risk with a score below 100 and one Low Risk
C10_Witness ==
    /\ ~ANOMALY_DETECTION_AVAILABLE
    /\ pc = "pipeline"
    /\ stage_result.dqi = "complete"
    /\ stage_result.rank = "complete"
    /\ Len(site_ranks) = 3
    /\ site_ranks[1].risk_level = "High Risk"
    /\ site_ranks[1].dqi_score < 100 * 100
    /\ site_ranks[3].risk_level = "Low Risk"

\* the files a stage reads and the files it writes
Upstream ==
    [dqi |-> {"signals_study_level.csv", "signals_site_level.csv"},
     rank |-> {"dqi_scores.csv", "dqi_scores_site_level.csv"},
     summary |-> {"risk_rankings.csv", "risk_rankings_site_level.csv"}]
Outputs ==
    [dqi |-> {"dqi_scores.csv", "dqi_scores_site_level.csv",
              "anomalies_site_level.csv"},
     rank |-> {"risk_rankings.csv", "risk_rankings_site_level.csv"},
     summary |-> {"executive_summary.txt"}]

\* a step that is a run of the stage with the upstream files it found
RunOf(stage) == stage_result[stage] = "not run" /\ stage_result'[stage] # "not run"
Ready(stage) == \A f \in Upstream[stage] : files[f].there

\* C16: a run of the DQI, ranking or summary stage that finds one of its
\* upstream files absent ends with the prerequisite-missing message, not
\* with an exception, and leaves every file as it was; a run writes an
\* output file only when both its upstream files exist.
C16_MissingPrerequisiteAbortsCleanly ==
    [][\A stage \in DOMAIN Upstream :
          RunOf(stage) =>
              /\ ~Ready(stage) =>
                    /\ stage_result'[stage] = "missing prerequisite"
                    /\ files' = files
              /\ Ready(stage) => stage_result'[stage] # "missing prerequisite"
              /\ (\E f \in Outputs[stage] : files'[f] # files[f]) => Ready(stage)]_vars

\* the ranking stage ran with one of the two DQI files gone and the
\* summary stage with no ranking file: both ended with the message and
\* their output files are not there
C16_Witness ==
    /\ pc = "file removed"
    /\ stage_result = [dqi |-> "complete", rank |-> "missing prerequisite",
                       summary |-> "missing prerequisite"]
    /\ exists(files, "dqi_scores.csv") /\ ~exists(files, "dqi_scores_site_level.csv")
    /\ \A f \in Outputs.rank \cup Outputs.summary : ~files[f].there

\* C17 as stated: called with the tables rank_studies and rank_sites
\* return, generate_executive_summary runs to completion and the report has
\* its seven sections in order: header, aggregate counts, key findings, top
\* aggregate drivers, study recommendations, site summary, closing
\* recommendations.
C17_SummaryRunsToCompletion ==
    (pc = "summarised") =>
        /\ stage_result.summary = "complete"
        /\ files["executive_summary.txt"] = File(SummarySections)

====
